---- MODULE Spec2Model ----
(***************************************************************************)
(* Incremental HTTP extraction engine: the Klaviyo cursor state manager,   *)
(* stream read, pagination and request params, the Salesforce retry policy *)
(* and availability handler, and the Mixpanel Engage pagination strategy   *)
(* and funnels partition router.  One run of the model exercises one       *)
(* component, chosen by comp.                                              *)
(***************************************************************************)
EXTENDS Integers, Sequences, FiniteSets

\* ------------------------------------------------------------------ bounds
\* Instants (points in time) that cursor values can denote: 0..MaxInstant.
MaxInstant == 2

\* Values of the handler's max_tries argument: 1..MaxMaxTries.
MaxMaxTries == 3

\* Values of the handler's factor argument: 1..MaxFactor.
MaxFactor == 2

\* No request is attempted more often than this (keeps the model finite).
TriesCap == 6

\* Values of the Klaviyo stream's max_time: 1..MaxTimeBudget seconds.
MaxTimeBudget == 2

\* Values of a Retry-After header: 0..MaxRetryAfter seconds, or absent.
MaxRetryAfter == 3

\* Pages a provider serves for one pass of one partition: at most MaxPages.
MaxPages == 2

\* Retries the HTTP layer allows per request (its max_retries).
MaxRetries == 1

VARIABLES
  comp,           \* which component this run exercises
  \* --- Klaviyo cursor state manager (streams.py get_updated_state)
  stream_state,   \* current_stream_state: [cur, arch], each a cursor string or NoneStr
  start_ts,       \* self._start_ts: a cursor string or NoneStr
  archivedMixin,  \* TRUE: the stream is a StreamWithArchivedRecords
  latest_record,  \* the record of the latest get_updated_state call
  cursor_err,     \* TRUE once a get_updated_state call raised (the read is over)
  seenP,          \* history: greatest instant fed to the primary namespace, -1 if none
  seenA,          \* history: greatest instant fed to the archived namespace, -1 if none
  callsP,         \* history: a call has stored into the primary namespace
  callsA,         \* history: a call has stored into the archived namespace
  \* --- the request in flight and its retry policy
  rstate,         \* "Pending", "Retryable", "Success", "GiveUp", "Fatal"; "Idle": none
  tries,          \* attempts of the request started so far
  wait,           \* seconds the policy waits before the next attempt
  \* --- Salesforce default_backoff_handler (rate_limiting.py)
  max_tries,      \* the handler's max_tries argument
  factor,         \* the handler's factor argument
  exc,            \* the exception the wrapped call raised last
  surfaced,       \* the exception that left the wrapper
  waits,          \* history: the waits slept so far, in order
  \* --- Klaviyo stream read (streams.py read_records, backoff_time)
  max_time,       \* self.max_time: the backoff budget in seconds
  nslices,        \* number of partitions stream_slices yields
  hasArchived,    \* TRUE: the stream is a StreamWithArchivedRecords
  slice,          \* the partition being read (1..nslices)
  pass,           \* "primary" or "archived": which read_records is running
  page,           \* the page of the pass being requested
  more,           \* the last page carried a next-page token
  resp,           \* the response to the latest attempt
  fatalSeen,      \* history: a request of this read ended in KlaviyoBackoffError
  readEnd,        \* "running", "done"
  \* --- Salesforce availability strategy (availability_strategy.py)
  avail_error,    \* the HttpError handed to handle_http_error
  avail_result,   \* what handle_http_error did with it
  \* --- Klaviyo pagination and request params (streams.py next_page_token,
  \*     request_params)
  klass,          \* the stream class whose request_params runs
  archived_pass,  \* TRUE: the request is built by the ArchivedRecordsStream
  page_size,      \* self.page_size, 0 for None
  stream_slice,   \* the channel of the Campaigns partition, 0 when unsliced
  now,            \* pendulum.now() in seconds
  params,         \* the query params of the latest request
  next_page_token,\* what next_page_token returned for the latest response
  next_page_link, \* links.next of the latest response
  pages,          \* requests of this partition built so far
  phase,          \* "build", "sent", "end"; "idle" in other components
  tokens,         \* history: the tokens returned so far in this partition
  repeated,       \* history: a returned token had been returned before
  \* --- Mixpanel EngagePaginationStrategy (components.py next_page_token)
  self_total,     \* self._total: Unset (no such attribute), None or a count
  decoded_response, \* the latest response: [page, total], -1 for a missing key
  previous_ended, \* how the partition before this one ended; "first": none before
  part_total,     \* history: the number of records of the partition being read
  faithful,       \* history: every response so far carried the page asked for,
                  \* and the partition's total on the first page only
  \* --- Mixpanel FunnelsSubstreamPartitionRouter (components.py stream_slices)
  parent_stream_configs, \* number of parent stream configs
  config,         \* the parent stream config being enumerated (1..)
  router_phase,   \* "slices": between parent slices, "records": inside one, "done"
  parent_stream_slice, \* the partition of the parent slice, 0 for a falsy slice
  empty_parent_slice,  \* the flag of that name
  parent_record,  \* the latest message read from the parent
  last_slice,     \* the latest StreamSlice yielded
  yielded,        \* history: StreamSlices yielded for this parent slice
  slices_read,    \* parent slices of this config started so far
  records_read,   \* messages of this parent slice read so far
  skipped_before, \* history: a record without the parent field was read
  empty_before,   \* history: a parent slice ended without a usable record
  nonrecord_before, \* history: a non-record message was read
  remembered,     \* history: one projection made so far, picked arbitrarily
  rerun,          \* TRUE: stream_slices is being run for the second time
  \* --- get_updated_state applied to two records in both orders
  first_record,   \* one record
  second_record,  \* another record
  once,           \* the result of get_updated_state on first_record
  twice,          \* the result of a second call on first_record after that
  one_order,      \* the result of first_record, then second_record
  other_order     \* the result of second_record, then first_record

cursorVars == <<stream_state, start_ts, archivedMixin, latest_record, cursor_err,
                seenP, seenA, callsP, callsA>>

requestVars == <<rstate, tries, wait>>

retryVars == <<max_tries, factor, exc, surfaced, waits>>

readVars == <<max_time, nslices, hasArchived, slice, pass, page, more, resp,
              fatalSeen, readEnd>>

availVars == <<avail_error, avail_result>>

klaviyoPageVars == <<klass, archived_pass, page_size, stream_slice, now, params,
                     next_page_token, next_page_link, pages, phase>>

historyVars == <<tokens, repeated>>

engageVars == <<self_total, decoded_response, previous_ended, part_total, faithful>>

routerVars == <<parent_stream_configs, config, router_phase, parent_stream_slice,
                empty_parent_slice, parent_record, last_slice, yielded,
                slices_read, records_read, skipped_before, empty_before,
                nonrecord_before, remembered, rerun>>

mergeVars == <<first_record, second_record, once, twice, one_order, other_order>>

partitionVars == <<klaviyoPageVars, historyVars, engageVars, routerVars, mergeVars>>

vars == <<comp, cursorVars, requestVars, retryVars, readVars, availVars,
          partitionVars>>

\* ------------------------------------------------------- cursor strings
\* A timestamp string denotes the wall-clock reading `local` at UTC offset
\* `off` (hours); fmt tells how the zone is written: "Z", or a numeric
\* offset "+hh:00".  NoneStr is Python's None, BadStr a string that
\* pendulum cannot parse.
Offsets == {0, 1}

NoneStr == [local |-> -1, off |-> 0, fmt |-> "none"]

BadStr == [local |-> -1, off |-> 0, fmt |-> "bad"]

CursorStrings ==
  { [local |-> i + o, off |-> o, fmt |-> f] :
      <<i, o, f>> \in { x \in (0..MaxInstant) \X Offsets \X {"Z", "offset"} :
                          x[3] = "Z" => x[2] = 0 } }

\* Python truthiness of an optional string.
Truthy(s) == s.fmt # "none"

\* pendulum.parse: the instant and the zone of a string; raises on BadStr.
ParseRaises(s) == s.fmt = "bad"

Parse(s) == [inst |-> s.local - s.off, off |-> s.off]

\* DateTime.isoformat(): always writes the numeric offset, never "Z".
Isoformat(dt) == [local |-> dt.inst + dt.off, off |-> dt.off, fmt |-> "offset"]

\* Python's max(a, b) on datetimes: b only when it is strictly later.
PyMax(a, b) == IF b.inst > a.inst THEN b ELSE a

\* The instant a stored value denotes; -1 when it is absent.
InstantOf(s) == IF s.fmt \in {"none", "bad"} THEN -1 ELSE Parse(s).inst

Records ==
  [cursor : CursorStrings \cup {BadStr}, archived : {"absent", "False", "True"}]

NoRecord == [cursor |-> NoneStr, archived |-> "absent"]

\* ------------------------------------------- KlaviyoStream.get_updated_state
\* Result: raised (a parse error left the state as it was) and the state.
KlaviyoStream_get_updated_state_NoMax(state, record, start) ==
  IF ParseRaises(record.cursor)
  THEN [raised |-> TRUE, state |-> state]
  ELSE [raised |-> FALSE,
        state |-> [state EXCEPT !.cur = Isoformat(Parse(record.cursor))]]

KlaviyoStream_get_updated_state_NoDefault(state, record, start) ==
  LET current == state.cur
  IN IF ParseRaises(record.cursor) \/ (Truthy(current) /\ ParseRaises(current))
     THEN [raised |-> TRUE, state |-> state]
     ELSE LET latest == Parse(record.cursor)
              merged == IF Truthy(current) THEN PyMax(latest, Parse(current)) ELSE latest
          IN [raised |-> FALSE, state |-> [state EXCEPT !.cur = Isoformat(merged)]]

KlaviyoStream_get_updated_state_SilentDefault(state, record, start) ==
  LET current == IF Truthy(state.cur) THEN state.cur ELSE start
  IN IF ParseRaises(record.cursor) \/ (Truthy(current) /\ ParseRaises(current))
     THEN [raised |-> FALSE, state |-> state]
     ELSE LET latest == Parse(record.cursor)
              merged == IF Truthy(current) THEN PyMax(latest, Parse(current)) ELSE latest
          IN [raised |-> FALSE, state |-> [state EXCEPT !.cur = Isoformat(merged)]]

KlaviyoStream_get_updated_state(state, record, start) ==
  LET current == IF Truthy(state.cur) THEN state.cur ELSE start
  IN IF ParseRaises(record.cursor) \/ (Truthy(current) /\ ParseRaises(current))
     THEN [raised |-> TRUE, state |-> state]
     ELSE LET latest == Parse(record.cursor)
              merged == IF Truthy(current) THEN PyMax(latest, Parse(current)) ELSE latest
          IN [raised |-> FALSE, state |-> [state EXCEPT !.cur = Isoformat(merged)]]

\* --------------------------------- StreamWithArchivedRecords.get_updated_state
IsArchived(record) == record.archived = "True"

StreamWithArchivedRecords_get_updated_state_Merged(state, record, start) ==
  IF IsArchived(record)
  THEN LET current == IF Truthy(state.arch) THEN state.arch ELSE start
       IN IF ParseRaises(record.cursor) \/ (Truthy(current) /\ ParseRaises(current))
          THEN [raised |-> TRUE, state |-> state]
          ELSE LET latest == Parse(record.cursor)
                   merged == IF Truthy(current) THEN PyMax(latest, Parse(current))
                             ELSE latest
               IN [raised |-> FALSE,
                   state |-> [state EXCEPT !.cur = Isoformat(merged)]]
  ELSE KlaviyoStream_get_updated_state(state, record, start)

StreamWithArchivedRecords_get_updated_state(state, record, start) ==
  IF IsArchived(record)
  THEN LET current == IF Truthy(state.arch) THEN state.arch ELSE start
       IN IF ParseRaises(record.cursor) \/ (Truthy(current) /\ ParseRaises(current))
          THEN [raised |-> TRUE, state |-> state]
          ELSE LET latest == Parse(record.cursor)
                   merged == IF Truthy(current) THEN PyMax(latest, Parse(current))
                             ELSE latest
               IN [raised |-> FALSE,
                   state |-> [state EXCEPT !.arch = Isoformat(merged)]]
  ELSE KlaviyoStream_get_updated_state(state, record, start)

IMax(a, b) == IF a >= b THEN a ELSE b

\* What a namespace counts as already seen before the first record: the
\* stored value, or the start bound when nothing is stored.
Effective(stored, start) == IF Truthy(stored) THEN stored ELSE start


\* ------------------------------------------------ components that are idle
NoExc == [cls |-> "none", response |-> "None", status |-> 0, code |-> ""]

NoError == [status |-> 0, code |-> "", message |-> ""]

NoResult == [kind |-> "none", available |-> FALSE, reason |-> "", error |-> NoError]

CursorIdle ==
  /\ stream_state = [cur |-> NoneStr, arch |-> NoneStr]
  /\ start_ts = NoneStr
  /\ archivedMixin = FALSE
  /\ latest_record = NoRecord
  /\ cursor_err = FALSE
  /\ seenP = -1 /\ seenA = -1
  /\ callsP = FALSE /\ callsA = FALSE

RequestIdle == rstate = "Idle" /\ tries = 0 /\ wait = 0

RetryIdle ==
  /\ max_tries = 0 /\ factor = 0
  /\ exc = NoExc /\ surfaced = NoExc
  /\ waits = << >>

AvailIdle == avail_error = NoError /\ avail_result = NoResult

NoResp == [status |-> 0, retry_after |-> -1]

ReadIdle ==
  /\ max_time = 0 /\ nslices = 0 /\ hasArchived = FALSE
  /\ slice = 0 /\ pass = "none" /\ page = 0 /\ more = FALSE
  /\ resp = NoResp /\ fatalSeen = FALSE /\ readEnd = "done"

\* Python's None for a pagination token, and a response without links.next.
NoToken == [none |-> TRUE, map |-> << >>]

NoLink == [kind |-> "absent", query |-> << >>]

KlaviyoPageIdle ==
  /\ klass = "none" /\ archived_pass = FALSE /\ page_size = 0
  /\ stream_slice = 0 /\ now = 0 /\ params = << >>
  /\ next_page_token = NoToken /\ next_page_link = NoLink
  /\ pages = 0 /\ phase = "idle"

HistoryIdle == tokens = {} /\ repeated = FALSE

\* self._total: the attribute does not exist (Unset), or holds None.
Unset == -2

None == -1

NoResponse == [page |-> -1, total |-> -1]

EngageIdle ==
  /\ self_total = Unset /\ decoded_response = NoResponse
  /\ previous_ended = "first" /\ part_total = 0 /\ faithful = TRUE

NoMessage == [wrapper |-> "none", type |-> "none", id |-> 0, name |-> 0]

NoSlice == [partition_value |-> 0, funnel_name |-> 0, parent_slice |-> 0]

NoProjection == [record |-> NoMessage, parent_partition |-> 0, slice |-> NoSlice]

RouterIdle ==
  /\ remembered = NoProjection /\ rerun = FALSE
  /\ parent_stream_configs = 0 /\ config = 0 /\ router_phase = "done"
  /\ parent_stream_slice = 0 /\ empty_parent_slice = TRUE
  /\ parent_record = NoMessage /\ last_slice = NoSlice /\ yielded = 0
  /\ slices_read = 0 /\ records_read = 0
  /\ skipped_before = FALSE /\ empty_before = FALSE /\ nonrecord_before = FALSE

NoOutcome == [raised |-> FALSE, state |-> [cur |-> NoneStr, arch |-> NoneStr]]

MergeIdle ==
  /\ first_record = NoRecord /\ second_record = NoRecord
  /\ once = NoOutcome /\ twice = NoOutcome
  /\ one_order = NoOutcome /\ other_order = NoOutcome

PartitionIdle ==
  KlaviyoPageIdle /\ HistoryIdle /\ EngageIdle /\ RouterIdle /\ MergeIdle

InitCursor ==
  /\ comp = "cursor"
  /\ RequestIdle /\ RetryIdle /\ ReadIdle /\ AvailIdle /\ PartitionIdle
  /\ stream_state \in [cur : CursorStrings \cup {NoneStr},
                       arch : CursorStrings \cup {NoneStr}]
  /\ start_ts \in CursorStrings \cup {NoneStr}
  /\ archivedMixin \in BOOLEAN
  /\ ~archivedMixin => stream_state.arch = NoneStr
  /\ latest_record = NoRecord
  /\ cursor_err = FALSE
  /\ seenP = InstantOf(Effective(stream_state.cur, start_ts))
  /\ seenA = InstantOf(Effective(stream_state.arch, start_ts))
  /\ callsP = FALSE
  /\ callsA = FALSE

\* The same, with stored values and start bounds that may be malformed.
StoredOrMalformed == {NoneStr, BadStr} \cup {x \in CursorStrings : x.fmt = "Z"}

InitCursorMalformed ==
  /\ comp = "cursor"
  /\ RequestIdle /\ RetryIdle /\ ReadIdle /\ AvailIdle /\ PartitionIdle
  /\ stream_state \in [cur : StoredOrMalformed, arch : StoredOrMalformed]
  /\ start_ts \in StoredOrMalformed
  /\ archivedMixin \in BOOLEAN
  /\ ~archivedMixin => stream_state.arch = NoneStr
  /\ latest_record = NoRecord
  /\ cursor_err = FALSE
  /\ seenP = InstantOf(Effective(stream_state.cur, start_ts))
  /\ seenA = InstantOf(Effective(stream_state.arch, start_ts))
  /\ callsP = FALSE
  /\ callsA = FALSE

\* One get_updated_state call of the stream on one record.
GetUpdatedState ==
  /\ comp = "cursor"
  /\ ~cursor_err
  /\ \E record \in Records :
       LET toArchived == archivedMixin /\ IsArchived(record)
           res == IF archivedMixin
                  THEN StreamWithArchivedRecords_get_updated_state(
                         stream_state, record, start_ts)
                  ELSE KlaviyoStream_get_updated_state(stream_state, record, start_ts)
       IN /\ latest_record' = record
          /\ stream_state' = res.state
          /\ cursor_err' = res.raised
          /\ seenP' = IF ~res.raised /\ ~toArchived
                      THEN IMax(seenP, InstantOf(record.cursor)) ELSE seenP
          /\ seenA' = IF ~res.raised /\ toArchived
                      THEN IMax(seenA, InstantOf(record.cursor)) ELSE seenA
          /\ callsP' = (callsP \/ (~res.raised /\ ~toArchived))
          /\ callsA' = (callsA \/ (~res.raised /\ toArchived))
  /\ UNCHANGED <<comp, partitionVars, start_ts, archivedMixin, requestVars, retryVars, readVars, availVars>>


\* --------------------------------------- Salesforce: rate_limiting.py
forbidden == 403

too_many_requests == 429

\* The exception classes the backoff decorator catches.
TRANSIENT_EXCEPTIONS_CatchAll ==
  {"AsyncDefaultBackoffException", "ClientPayloadError", "ServerTimeoutError",
   "ServerConnectionError", "ServerDisconnectedError", "Unclassified"}

TRANSIENT_EXCEPTIONS ==
  {"AsyncDefaultBackoffException", "ClientPayloadError", "ServerTimeoutError",
   "ServerConnectionError", "ServerDisconnectedError"}

\* The aiohttp connection-level classes: plain exceptions, which carry neither
\* a response nor a status_code attribute.
ConnectionLevel ==
  {"ClientPayloadError", "ServerTimeoutError", "ServerConnectionError",
   "ServerDisconnectedError"}

ErrorCodes == {"REQUEST_LIMIT_EXCEEDED", "INVALID_TYPE_FOR_OPERATION", "OTHER", ""}

\* What the wrapped call can raise: an HTTP failure carrying the response
\* (status and the errorCode of its body), a connection-level failure, or an
\* exception of a class outside TRANSIENT_EXCEPTIONS.
Failures ==
  [cls : {"AsyncDefaultBackoffException"}, response : {"present"},
   status : {400, forbidden, too_many_requests, 500, 503},
   code : {"REQUEST_LIMIT_EXCEEDED", "OTHER"}]
  \cup [cls : ConnectionLevel \cup {"Unclassified"}, response : {"None"},
        status : {0}, code : {""}]

AttributeError == [cls |-> "AttributeError", response |-> "None", status |-> 0, code |-> ""]

\* should_give_up(exc): raises when exc has no response attribute; otherwise
\* the give-up decision.
should_give_up_RetryOnLimit(e) ==
  IF e.cls \in ConnectionLevel \cup {"Unclassified"}
  THEN [raises |-> TRUE, give_up |-> FALSE]
  ELSE LET give_up == /\ e.response # "None"
                      /\ e.status # too_many_requests
                      /\ 400 <= e.status /\ e.status < 500
       IN [raises |-> FALSE,
           give_up |-> IF e.status = forbidden /\ e.code = "REQUEST_LIMIT_EXCEEDED"
                       THEN FALSE ELSE give_up]

should_give_up(e) ==
  IF e.cls \in ConnectionLevel \cup {"Unclassified"}
  THEN [raises |-> TRUE, give_up |-> FALSE]
  ELSE LET give_up == /\ e.response # "None"
                      /\ e.status # too_many_requests
                      /\ 400 <= e.status /\ e.status < 500
       IN [raises |-> FALSE,
           give_up |-> IF e.status = forbidden /\ e.code = "REQUEST_LIMIT_EXCEEDED"
                       THEN TRUE ELSE give_up]

RECURSIVE Pow2(_)
Pow2(n) == IF n <= 0 THEN 1 ELSE 2 * Pow2(n - 1)

\* backoff.expo with jitter=None: the wait after the failure of attempt t.
ExpoWait(f, t) == f * Pow2(t - 1)

\* max_tries=max_tries: the attempt that just failed was the last one allowed.
MaxTriesExceeded_Never(t) == FALSE

MaxTriesExceeded(t) == t = max_tries

InitRetry ==
  /\ comp = "salesforce"
  /\ CursorIdle /\ ReadIdle /\ AvailIdle /\ PartitionIdle
  /\ max_tries \in 1..MaxMaxTries
  /\ factor \in 1..MaxFactor
  /\ rstate = "Pending" /\ tries = 1 /\ wait = 0
  /\ exc = NoExc /\ surfaced = NoExc
  /\ waits = << >>

\* The wrapped call returns.
CallReturns ==
  /\ comp = "salesforce" /\ rstate = "Pending"
  /\ rstate' = "Success"
  /\ UNCHANGED <<comp, partitionVars, cursorVars, tries, wait, retryVars, readVars, availVars>>

\* The wrapped call raises e: backoff.on_exception lets a class it does not
\* catch through; for the others it asks giveup(e) first, then max_tries,
\* and else sleeps the next value of backoff.expo.
CallRaises ==
  /\ comp = "salesforce" /\ rstate = "Pending"
  /\ \E e \in Failures :
       /\ exc' = e
       /\ IF e.cls \notin TRANSIENT_EXCEPTIONS
          THEN /\ rstate' = "GiveUp" /\ surfaced' = e
               /\ UNCHANGED <<wait, waits>>
          ELSE LET d == should_give_up(e)
               IN IF d.raises
                  THEN /\ rstate' = "GiveUp" /\ surfaced' = AttributeError
                       /\ UNCHANGED <<wait, waits>>
                  ELSE IF d.give_up \/ MaxTriesExceeded(tries)
                  THEN /\ rstate' = "GiveUp" /\ surfaced' = e
                       /\ UNCHANGED <<wait, waits>>
                  ELSE /\ rstate' = "Retryable" /\ surfaced' = surfaced
                       /\ wait' = ExpoWait(factor, tries)
                       /\ waits' = Append(waits, ExpoWait(factor, tries))
  /\ UNCHANGED <<comp, partitionVars, cursorVars, tries, max_tries, factor, readVars, availVars>>

\* The wait is over: the same call is attempted again.
RetryAfterWait ==
  /\ comp = "salesforce" /\ rstate = "Retryable"
  /\ tries < TriesCap
  /\ rstate' = "Pending" /\ tries' = tries + 1 /\ wait' = 0
  /\ UNCHANGED <<comp, partitionVars, cursorVars, retryVars, readVars, availVars>>

NextRetry == CallReturns \/ CallRaises \/ RetryAfterWait

\* ----------------------------------- Salesforce: availability_strategy.py
FORBIDDEN == 403

BAD_REQUEST == 400

HttpErrors ==
  [status : {BAD_REQUEST, 401, FORBIDDEN, 404, 500}, code : ErrorCodes,
   message : {"m1", "m2"}]

\* handle_http_error(stream, logger, source, error): a returned tuple
\* (available, reason), or the error raised again.
handle_http_error_InvalidTypeAvailable(error) ==
  IF error.status \in {FORBIDDEN, BAD_REQUEST}
  THEN IF error.code \notin {"REQUEST_LIMIT_EXCEEDED", "INVALID_TYPE_FOR_OPERATION"}
       THEN [kind |-> "return", available |-> FALSE, reason |-> error.message,
             error |-> NoError]
       ELSE [kind |-> "return", available |-> TRUE, reason |-> "", error |-> NoError]
  ELSE [kind |-> "raise", available |-> FALSE, reason |-> "", error |-> error]

handle_http_error(error) ==
  IF error.status \in {FORBIDDEN, BAD_REQUEST}
  THEN IF error.code # "REQUEST_LIMIT_EXCEEDED" \/ error.code = "INVALID_TYPE_FOR_OPERATION"
       THEN [kind |-> "return", available |-> FALSE, reason |-> error.message,
             error |-> NoError]
       ELSE [kind |-> "return", available |-> TRUE, reason |-> "", error |-> NoError]
  ELSE [kind |-> "raise", available |-> FALSE, reason |-> "", error |-> error]

\* The availability check of a stream hands an HTTP error to the strategy.
HandleHttpError ==
  /\ comp = "salesforce"
  /\ \E error \in HttpErrors :
       /\ avail_error' = error
       /\ avail_result' = handle_http_error(error)
  /\ UNCHANGED <<comp, partitionVars, cursorVars, requestVars, retryVars, readVars>>

\* ------------------------------------------- Klaviyo: streams.py, the read
\* Campaigns.stream_slices yields one partition per channel type.
message_channel_types == 2

\* A Retry-After header: -1 when the response has none.
RetryAfterHeaders == {-1} \cup (0..MaxRetryAfter)

\* backoff_time(response): raises KlaviyoBackoffError, or returns the wait;
\* value -1 is None (no wait of its own: the default backoff applies).
backoff_time_NoEscalation(response, budget) ==
  IF response.status = 429
  THEN [raises |-> FALSE, value |-> response.retry_after]
  ELSE [raises |-> FALSE, value |-> -1]

backoff_time(response, budget) ==
  IF response.status = 429
  THEN LET retry_after == response.retry_after
       IN IF retry_after # -1 /\ retry_after # 0 /\ retry_after >= budget
          THEN [raises |-> TRUE, value |-> -1]
          ELSE [raises |-> FALSE, value |-> retry_after]
  ELSE [raises |-> FALSE, value |-> -1]

InitRead ==
  /\ comp = "read"
  /\ CursorIdle /\ RetryIdle /\ AvailIdle /\ PartitionIdle
  /\ max_time \in 1..MaxTimeBudget
  /\ nslices \in 1..message_channel_types
  /\ hasArchived \in BOOLEAN
  /\ slice = 1 /\ pass = "primary" /\ page = 1 /\ more = FALSE
  /\ resp = NoResp /\ fatalSeen = FALSE /\ readEnd = "running"
  /\ rstate = "Pending" /\ tries = 1 /\ wait = 0

\* The first request of a pass over the partition sl.
StartPass(sl, ps) ==
  /\ slice' = sl /\ pass' = ps /\ page' = 1 /\ more' = FALSE
  /\ resp' = NoResp
  /\ rstate' = "Pending" /\ tries' = 1 /\ wait' = 0
  /\ readEnd' = readEnd

\* The caller of read_records goes on to the next partition, if any.
NextSlice ==
  IF slice < nslices
  THEN StartPass(slice + 1, "primary")
  ELSE /\ readEnd' = "done"
       /\ UNCHANGED <<slice, pass, page, more, resp, requestVars>>

\* A page arrives; next_page_token tells whether another one follows.
ResponseOk ==
  /\ comp = "read" /\ readEnd = "running" /\ rstate = "Pending"
  /\ \E m \in BOOLEAN :
       /\ m => page < MaxPages
       /\ more' = m
  /\ resp' = [status |-> 200, retry_after |-> -1]
  /\ rstate' = "Success"
  /\ UNCHANGED <<comp, partitionVars, cursorVars, tries, wait, retryVars, availVars,
                 max_time, nslices, hasArchived, slice, pass, page, fatalSeen, readEnd>>

\* A 429 or 5xx arrives: the HTTP layer asks backoff_time for the wait.
ResponseRetryable ==
  /\ comp = "read" /\ readEnd = "running" /\ rstate = "Pending"
  /\ \E r \in [status : {429, 500}, retry_after : RetryAfterHeaders] :
       LET b == backoff_time(r, max_time)
       IN /\ resp' = r
          /\ IF b.raises
             THEN /\ rstate' = "Fatal" /\ fatalSeen' = TRUE /\ wait' = wait
             ELSE /\ rstate' = IF tries > MaxRetries THEN "GiveUp" ELSE "Retryable"
                  /\ wait' = b.value
                  /\ fatalSeen' = fatalSeen
  /\ UNCHANGED <<comp, partitionVars, cursorVars, tries, retryVars, availVars,
                 max_time, nslices, hasArchived, slice, pass, page, more, readEnd>>

\* Any other 4xx arrives: the request is given up.
ResponseClientError ==
  /\ comp = "read" /\ readEnd = "running" /\ rstate = "Pending"
  /\ resp' = [status |-> 400, retry_after |-> -1]
  /\ rstate' = "GiveUp"
  /\ UNCHANGED <<comp, partitionVars, cursorVars, tries, wait, retryVars, availVars,
                 max_time, nslices, hasArchived, slice, pass, page, more,
                 fatalSeen, readEnd>>

\* The wait is over: the same request is sent again.
Resend ==
  /\ comp = "read" /\ readEnd = "running" /\ rstate = "Retryable"
  /\ tries < TriesCap
  /\ rstate' = "Pending" /\ tries' = tries + 1 /\ wait' = 0
  /\ resp' = NoResp
  /\ UNCHANGED <<comp, partitionVars, cursorVars, retryVars, availVars,
                 max_time, nslices, hasArchived, slice, pass, page, more,
                 fatalSeen, readEnd>>

\* The page had a next-page token: the next page of the pass is requested.
RequestNextPage ==
  /\ comp = "read" /\ readEnd = "running" /\ rstate = "Success" /\ more
  /\ page' = page + 1 /\ more' = FALSE /\ resp' = NoResp
  /\ rstate' = "Pending" /\ tries' = 1 /\ wait' = 0
  /\ UNCHANGED <<comp, partitionVars, cursorVars, retryVars, availVars,
                 max_time, nslices, hasArchived, slice, pass, fatalSeen, readEnd>>

\* What follows a read_records of KlaviyoStream that returned normally:
\* after the primary pass of a stream with archived records, the archived
\* stream's read_records over the same stream_slice; else the next partition.
AfterPassReturned_OtherSlice ==
  IF pass = "primary" /\ hasArchived
  THEN StartPass(IF slice < nslices THEN slice + 1 ELSE slice, "archived")
  ELSE NextSlice

AfterPassReturned ==
  IF pass = "primary" /\ hasArchived
  THEN StartPass(slice, "archived")
  ELSE NextSlice

\* The last page had no token: the pass's read_records is exhausted.
PassExhausted ==
  /\ comp = "read" /\ readEnd = "running" /\ rstate = "Success" /\ ~more
  /\ AfterPassReturned
  /\ UNCHANGED <<comp, partitionVars, cursorVars, retryVars, availVars,
                 max_time, nslices, hasArchived, fatalSeen>>

BackoffErrorCaught_Propagates ==
  /\ comp = "read" /\ readEnd = "running" /\ rstate = "Fatal"
  /\ NextSlice
  /\ UNCHANGED <<comp, partitionVars, cursorVars, retryVars, availVars,
                 max_time, nslices, hasArchived, fatalSeen>>

\* KlaviyoStream.read_records catches the KlaviyoBackoffError and logs it:
\* the pass's read_records returns normally.
BackoffErrorCaught ==
  /\ comp = "read" /\ readEnd = "running" /\ rstate = "Fatal"
  /\ AfterPassReturned
  /\ UNCHANGED <<comp, partitionVars, cursorVars, retryVars, availVars,
                 max_time, nslices, hasArchived, fatalSeen>>

\* Any other error leaves read_records, the archived pass included; the
\* caller records it for this partition and goes on.
GiveUpPropagates ==
  /\ comp = "read" /\ readEnd = "running" /\ rstate = "GiveUp"
  /\ NextSlice
  /\ UNCHANGED <<comp, partitionVars, cursorVars, retryVars, availVars,
                 max_time, nslices, hasArchived, fatalSeen>>

NextRead ==
  \/ ResponseOk \/ ResponseRetryable \/ ResponseClientError \/ Resend
  \/ RequestNextPage \/ PassExhausted \/ BackoffErrorCaught \/ GiveUpPropagates

\* --------------------------------- Klaviyo pagination and request params
\* A query param value is a comma-separated list of terms; a term is an
\* operator, a number (page size, page cursor, channel) and a timestamp.
Term(op, n, ts) == [op |-> op, n |-> n, ts |-> ts]

\* A Python dict of params: a function from the keys present to values.
EmptyDict == << >>

Get(d, k) == IF k \in DOMAIN d THEN d[k] ELSE << >>

Put(d, k, v) == [x \in DOMAIN d \cup {k} |-> IF x = k THEN v ELSE d[x]]

\* urllib.parse.parse_qsl and the dict comprehension over it: a pair with a
\* blank value is dropped, a later pair of the same key replaces an earlier.
RECURSIVE parse_qsl(_)
parse_qsl(query) ==
  IF query = << >> THEN EmptyDict
  ELSE LET d  == parse_qsl(SubSeq(query, 1, Len(query) - 1))
           kv == query[Len(query)]
       IN IF kv.v = << >> THEN d ELSE Put(d, kv.k, kv.v)

\* KlaviyoStream.next_page_token; link.kind is "absent" (no links.next),
\* "null", "empty" (the empty string) or "url".
KlaviyoStream_next_page_token_NoneOnEmptyQuery(link) ==
  IF link.kind # "url" \/ parse_qsl(link.query) = EmptyDict THEN NoToken
  ELSE [none |-> FALSE, map |-> parse_qsl(link.query)]

KlaviyoStream_next_page_token(link) ==
  IF link.kind # "url" THEN NoToken
  ELSE [none |-> FALSE, map |-> parse_qsl(link.query)]

\* Python truthiness of an optional dict.
TokenSet(token) == ~token.none /\ token.map # EmptyDict

PageSizeParams(ps) == Put(EmptyDict, "page[size]", <<Term("int", ps, NoneStr)>>)

\* KlaviyoStream.request_params
KlaviyoStream_request_params(token, ps) ==
  IF TokenSet(token) THEN token.map
  ELSE IF ps # 0 THEN PageSizeParams(ps) ELSE EmptyDict

\* subtract(seconds=3)
Margin == 3

\* Python's min(a, b) on datetimes: b only when it is strictly earlier.
PyMin_NoClamp(a, b) == a

PyMin(a, b) == IF b.inst < a.inst THEN b ELSE a

GreaterThan(dt) == <<Term("greater-than", 0, Isoformat(dt))>>

SortByCursorField == <<Term("cursor_field", 0, NoneStr)>>

\* The cursor filter bound before the clamp (lines 152-157).
latest_cursor(stored, start) ==
  LET latest == IF Truthy(stored) THEN stored ELSE start
  IN IF Truthy(stored) THEN PyMax(Parse(latest), Parse(stored)) ELSE Parse(latest)

\* IncrementalKlaviyoStream.request_params; stored is
\* stream_state.get(cursor_field), t is pendulum.now().
IncrementalKlaviyoStream_request_params(stored, start, token, ps, t) ==
  LET base == KlaviyoStream_request_params(token, ps)
  IN IF Get(base, "filter") # << >> THEN base
     ELSE LET bound    == PyMin(latest_cursor(stored, start),
                                [inst |-> t - Margin, off |-> 0])
              filtered == IF Truthy(stored) \/ Truthy(start)
                          THEN Put(base, "filter", GreaterThan(bound))
                          ELSE base
          IN Put(filtered, "sort", SortByCursorField)

\* Campaigns.stream_slices: one partition per message channel.
ChannelFilter(channel) == <<Term("equals-channel", channel, NoneStr)>>

\* Campaigns.request_params
Campaigns_request_params(stored, start, token, ps, t, channel) ==
  LET p == IncrementalKlaviyoStream_request_params(stored, start, token, ps, t)
  IN IF "filter" \in DOMAIN p
     THEN Put(p, "filter", p["filter"] \o ChannelFilter(channel))
     ELSE Put(p, "filter", ChannelFilter(channel))

ArchivedFilter == Term("equals-archived", 0, NoneStr)

InSeq(x, s) == \E i \in 1..Len(s) : s[i] = x

\* ArchivedRecordsStream.request_params, given the params p of its base stream.
ArchivedRecordsStream_request_params(p) ==
  IF "filter" \in DOMAIN p /\ ~InSeq(ArchivedFilter, p["filter"])
  THEN Put(p, "filter", Append(p["filter"], ArchivedFilter))
  ELSE IF "filter" \notin DOMAIN p
  THEN Put(p, "filter", <<ArchivedFilter>>)
  ELSE p

StreamClasses == {"KlaviyoStream", "IncrementalKlaviyoStream", "Flows", "Campaigns"}

\* The request_params the stream of class k runs; arch: through its
\* ArchivedRecordsStream, which hands over stream_state.get("archived").
request_params(k, arch, state, start, token, ps, t, channel) ==
  LET stored == IF arch THEN state.arch ELSE state.cur
      p == IF k = "KlaviyoStream" THEN KlaviyoStream_request_params(token, ps)
           ELSE IF k = "Campaigns"
           THEN Campaigns_request_params(stored, start, token, ps, t, channel)
           ELSE IncrementalKlaviyoStream_request_params(stored, start, token, ps, t)
  IN IF arch THEN ArchivedRecordsStream_request_params(p) ELSE p

\* ---- the provider's side: the next link of a response
KeyOrder == <<"filter", "sort", "page[size]", "page[cursor]", "fields">>

\* The query string that carries the params p, keys in KeyOrder.
RECURSIVE QueryOf(_, _)
QueryOf(p, i) ==
  IF i > Len(KeyOrder) THEN << >>
  ELSE IF KeyOrder[i] \in DOMAIN p
  THEN <<[k |-> KeyOrder[i], v |-> p[KeyOrder[i]]]>> \o QueryOf(p, i + 1)
  ELSE QueryOf(p, i + 1)

PageCursor(c) == <<Term("opaque", c, NoneStr)>>

Without(p, k) == [x \in DOMAIN p \ {k} |-> p[x]]

\* The links a provider may answer the request p of page pg with: none, the
\* request's params with the cursor of the next page or (drift) with the
\* cursor the request already carried, the same with a stale duplicate of
\* the cursor and a blank param, without the filter, or without any query.
ProviderLinks(p, pg) ==
  LET cursors == {pg, pg - 1} \ {0}
  IN [kind : {"absent", "null", "empty"}, query : {<< >>}]
     \cup [kind : {"url"},
           query : {<< >>}
                   \cup { QueryOf(Put(p, "page[cursor]", PageCursor(c)), 1) :
                            c \in cursors }
                   \cup { <<[k |-> "page[cursor]", v |-> PageCursor(0)]>>
                            \o QueryOf(Put(p, "page[cursor]", PageCursor(c)), 1)
                            \o <<[k |-> "fields", v |-> << >>]>> : c \in cursors }
                   \cup { QueryOf(Put(Without(p, "filter"), "page[cursor]",
                                      PageCursor(c)), 1) : c \in cursors }]

\* now ranges over Margin..MaxNow, so that now - Margin meets every instant.
MaxNow == Margin + MaxInstant

StoredStrings == {NoneStr} \cup {s \in CursorStrings : s.fmt = "Z"}

InitKlaviyoPages ==
  /\ comp = "klaviyo_pages"
  /\ RequestIdle /\ RetryIdle /\ ReadIdle /\ AvailIdle /\ EngageIdle /\ RouterIdle
  /\ MergeIdle
  /\ latest_record = NoRecord /\ cursor_err = FALSE
  /\ seenP = -1 /\ seenA = -1 /\ callsP = FALSE /\ callsA = FALSE
  /\ klass \in StreamClasses
  /\ archived_pass \in IF klass \in {"Flows", "Campaigns"} THEN BOOLEAN ELSE {FALSE}
  /\ archivedMixin = (klass \in {"Flows", "Campaigns"})
  /\ page_size \in IF klass = "KlaviyoStream" THEN {0, 1} ELSE {0}
  /\ stream_slice \in IF klass = "Campaigns" THEN 1..message_channel_types ELSE {0}
  /\ \E s \in StoredStrings :
       stream_state = IF archived_pass THEN [cur |-> NoneStr, arch |-> s]
                      ELSE [cur |-> s, arch |-> NoneStr]
  /\ start_ts \in IF klass = "KlaviyoStream" THEN {NoneStr} ELSE StoredStrings
  /\ now \in Margin..MaxNow
  /\ params = EmptyDict
  /\ next_page_token = NoToken /\ next_page_link = NoLink
  /\ pages = 0 /\ phase = "build"
  /\ tokens = {} /\ repeated = FALSE

\* The stream builds the request of the next page: request_params with the
\* token of the previous response (None for the first page).
BuildRequest ==
  /\ comp = "klaviyo_pages" /\ phase = "build" /\ pages < MaxPages
  /\ \E t \in now..MaxNow :
       /\ now' = t
       /\ params' = request_params(klass, archived_pass, stream_state, start_ts,
                                   next_page_token, page_size, t, stream_slice)
  /\ pages' = pages + 1
  /\ phase' = "sent"
  /\ UNCHANGED <<comp, cursorVars, requestVars, retryVars, readVars, availVars,
                 routerVars, mergeVars,
                 engageVars, klass, archived_pass, page_size, stream_slice,
                 next_page_token, next_page_link, historyVars>>

\* The response arrives: next_page_token resolves its links.next; a falsy
\* token ends the pagination of the partition.
KlaviyoResponse ==
  /\ comp = "klaviyo_pages" /\ phase = "sent"
  /\ \E link \in ProviderLinks(params, pages) :
       LET token == KlaviyoStream_next_page_token(link)
       IN /\ next_page_link' = link
          /\ next_page_token' = token
          /\ tokens' = IF token.none THEN tokens ELSE tokens \cup {token.map}
          /\ repeated' = (repeated \/ (~token.none /\ token.map \in tokens))
          /\ phase' = IF TokenSet(token) THEN "build" ELSE "end"
  /\ UNCHANGED <<comp, cursorVars, requestVars, retryVars, readVars, availVars,
                 routerVars, mergeVars,
                 engageVars, klass, archived_pass, page_size, stream_slice, now, params, pages>>

NextKlaviyoPages == BuildRequest \/ KlaviyoResponse

\* ------------------------------ Mixpanel EngagePaginationStrategy
\* Record counts of a partition: 0..MaxTotal.
MaxTotal == 3

\* Values of the strategy's page_size: 1..MaxPageSize.
MaxPageSize == 2

SessionId == <<Term("opaque", 1, NoneStr)>>

\* {'session_id': ..., 'page': page_number + 1}
EngageToken(page_number) ==
  [none |-> FALSE,
   map  |-> Put(Put(EmptyDict, "session_id", SessionId),
                "page", <<Term("int", page_number + 1, NoneStr)>>)]

\* EngagePaginationStrategy.next_page_token on the response r, with
\* self._total = total before the call.  Reading self._total while the
\* attribute does not exist raises AttributeError and leaves it so.
EngagePaginationStrategy_next_page_token_OffByOne(r, total, ps) ==
  LET retained == IF r.total > 0 THEN r.total ELSE total
  IN IF retained = Unset
     THEN [raised |-> TRUE, token |-> NoToken, total |-> Unset]
     ELSE IF retained > 0 /\ r.page # -1 /\ retained >= ps * (r.page + 1)
     THEN [raised |-> FALSE, token |-> EngageToken(r.page), total |-> retained]
     ELSE [raised |-> FALSE, token |-> NoToken, total |-> None]

EngagePaginationStrategy_next_page_token(r, total, ps) ==
  LET retained == IF r.total > 0 THEN r.total ELSE total
  IN IF retained = Unset
     THEN [raised |-> TRUE, token |-> NoToken, total |-> Unset]
     ELSE IF retained > 0 /\ r.page # -1 /\ retained > ps * (r.page + 1)
     THEN [raised |-> FALSE, token |-> EngageToken(r.page), total |-> retained]
     ELSE [raised |-> FALSE, token |-> NoToken, total |-> None]

\* The page index a request asks for: that of its token, 0 without one.
RequestedPage(p) == IF "page" \in DOMAIN p THEN p["page"][1].n ELSE 0

\* The responses a provider may give to a request for page index q of a
\* partition of n records: the page asked for, an earlier one again or none;
\* no total, the partition's total or (drift) another one.
EngageResponses(q, n) ==
  [page : {-1, q, 0}, total : {-1, n, MaxTotal}]

InitEngage ==
  /\ comp = "engage"
  /\ CursorIdle /\ RequestIdle /\ RetryIdle /\ ReadIdle /\ AvailIdle /\ RouterIdle
  /\ MergeIdle
  /\ klass = "none" /\ archived_pass = FALSE /\ stream_slice = 0 /\ now = 0
  /\ page_size \in 1..MaxPageSize
  /\ params = EmptyDict
  /\ next_page_token = NoToken /\ next_page_link = NoLink
  /\ pages = 0 /\ phase = "build"
  /\ tokens = {} /\ repeated = FALSE
  /\ self_total = Unset
  /\ decoded_response = NoResponse
  /\ previous_ended = "first"
  /\ part_total \in 0..MaxTotal
  /\ faithful = TRUE

\* The requester sends the next page: the token's session_id and page are
\* its extra params (none for the first page).
EngageRequest ==
  /\ comp = "engage" /\ phase = "build" /\ pages < MaxPages
  /\ params' = IF TokenSet(next_page_token) THEN next_page_token.map ELSE EmptyDict
  /\ pages' = pages + 1
  /\ phase' = "sent"
  /\ UNCHANGED <<comp, cursorVars, requestVars, retryVars, readVars, availVars,
                 routerVars, mergeVars,
                 engageVars, historyVars, klass, archived_pass, page_size,
                 stream_slice, now, next_page_token, next_page_link>>

\* The response arrives and next_page_token runs on it.
EngageResponse ==
  /\ comp = "engage" /\ phase = "sent"
  /\ \E r \in EngageResponses(RequestedPage(params), part_total) :
       LET res == EngagePaginationStrategy_next_page_token(r, self_total, page_size)
       IN /\ decoded_response' = r
          /\ self_total' = res.total
          /\ next_page_token' = res.token
          /\ phase' = IF res.raised THEN "raised"
                      ELSE IF res.token.none THEN "end" ELSE "build"
          /\ tokens' = IF res.token.none THEN tokens
                       ELSE tokens \cup {res.token.map}
          /\ repeated' = (repeated \/ (~res.token.none /\ res.token.map \in tokens))
          /\ faithful' = (/\ faithful
                          /\ r.page = RequestedPage(params)
                          /\ r.total = IF pages = 1 THEN part_total ELSE -1)
  /\ UNCHANGED <<comp, cursorVars, requestVars, retryVars, readVars, availVars,
                 routerVars, mergeVars,
                 klass, archived_pass, page_size, stream_slice, now, params,
                 next_page_link, pages, previous_ended, part_total>>

\* The request of a page fails for good (the retry policy gave up, or a
\* fatal response): next_page_token is not called for it.
EngageRequestFails ==
  /\ comp = "engage" /\ phase = "sent"
  /\ phase' = "failed"
  /\ UNCHANGED <<comp, cursorVars, requestVars, retryVars, readVars, availVars,
                 routerVars, mergeVars,
                 engageVars, historyVars, klass, archived_pass, page_size,
                 stream_slice, now, params, next_page_token, next_page_link, pages>>

\* The next partition starts with the same strategy object.
EngageNextPartition ==
  /\ comp = "engage" /\ phase \in {"end", "failed"} /\ previous_ended = "first"
  /\ previous_ended' = phase
  /\ part_total' \in 0..MaxTotal
  /\ faithful' = TRUE
  /\ pages' = 0 /\ phase' = "build"
  /\ params' = EmptyDict /\ next_page_token' = NoToken
  /\ decoded_response' = NoResponse
  /\ tokens' = {}
  /\ UNCHANGED <<comp, cursorVars, requestVars, retryVars, readVars, availVars,
                 routerVars, mergeVars,
                 klass, archived_pass, page_size, stream_slice, now,
                 next_page_link, repeated, self_total>>

NextEngage ==
  EngageRequest \/ EngageResponse \/ EngageRequestFails \/ EngageNextPartition

\* ------------------------- Mixpanel FunnelsSubstreamPartitionRouter
\* Parent stream configs of a router: 0..MaxParentConfigs.
MaxParentConfigs == 1

\* Slices a parent stream yields: at most MaxParentSlices.
MaxParentSlices == 2

\* Messages a parent slice yields: at most MaxParentRecords.
MaxParentRecords == 2

\* What read_records of the parent yields: an AirbyteMessage of type RECORD
\* or not, or a Record.  id is the value found at the parent field path (0:
\* the path does not resolve), name the record's 'name' (0: None); for a
\* non-record message they are what a projection of it would find.
Messages ==
  { m \in [wrapper : {"AirbyteMessage", "Record"}, type : {"RECORD", "LOG"},
           id : 0..1, name : 0..1] :
      m.wrapper = "Record" => m.type = "RECORD" }

IsRecordMessage(m) == m.wrapper = "Record" \/ m.type = "RECORD"

\* One pass of the loop body over a parent message (lines 243-263): what it
\* yields (NoSlice: nothing), and whether the enumeration goes on.
FunnelsSubstreamPartitionRouter_stream_slices_body_StopOnKeyError(m, parent_partition) ==
  IF m.wrapper = "AirbyteMessage" /\ m.type # "RECORD"
  THEN [yields |-> FALSE, slice |-> NoSlice, goes_on |-> TRUE]
  ELSE IF m.id = 0
  THEN [yields |-> FALSE, slice |-> NoSlice, goes_on |-> FALSE]
  ELSE [yields |-> TRUE, goes_on |-> TRUE,
        slice |-> [partition_value |-> m.id, funnel_name |-> m.name,
                   parent_slice |-> parent_partition]]

FunnelsSubstreamPartitionRouter_stream_slices_body_DropMessages(m, parent_partition) ==
  IF m.wrapper = "AirbyteMessage"
  THEN [yields |-> FALSE, slice |-> NoSlice, goes_on |-> TRUE]
  ELSE IF m.id = 0
  THEN [yields |-> FALSE, slice |-> NoSlice, goes_on |-> TRUE]
  ELSE [yields |-> TRUE, goes_on |-> TRUE,
        slice |-> [partition_value |-> m.id, funnel_name |-> m.name,
                   parent_slice |-> parent_partition]]

FunnelsSubstreamPartitionRouter_stream_slices_body_ForgetsParentSlice(m, parent_partition) ==
  IF m.wrapper = "AirbyteMessage" /\ m.type # "RECORD"
  THEN [yields |-> FALSE, slice |-> NoSlice, goes_on |-> TRUE]
  ELSE IF m.id = 0
  THEN [yields |-> FALSE, slice |-> NoSlice, goes_on |-> TRUE]
  ELSE [yields |-> TRUE, goes_on |-> TRUE,
        slice |-> [partition_value |-> m.id, funnel_name |-> m.name,
                   parent_slice |-> 0]]

FunnelsSubstreamPartitionRouter_stream_slices_body_CountsYielded(m, parent_partition) ==
  IF m.wrapper = "AirbyteMessage" /\ m.type # "RECORD"
  THEN [yields |-> FALSE, slice |-> NoSlice, goes_on |-> TRUE]
  ELSE IF m.id = 0
  THEN [yields |-> FALSE, slice |-> NoSlice, goes_on |-> TRUE]
  ELSE [yields |-> TRUE, goes_on |-> TRUE,
        slice |-> [partition_value |-> m.id + yielded, funnel_name |-> m.name,
                   parent_slice |-> parent_partition]]

FunnelsSubstreamPartitionRouter_stream_slices_body(m, parent_partition) ==
  IF m.wrapper = "AirbyteMessage" /\ m.type # "RECORD"
  THEN [yields |-> FALSE, slice |-> NoSlice, goes_on |-> TRUE]
  ELSE IF m.id = 0
  THEN [yields |-> FALSE, slice |-> NoSlice, goes_on |-> TRUE]
  ELSE [yields |-> TRUE, goes_on |-> TRUE,
        slice |-> [partition_value |-> m.id, funnel_name |-> m.name,
                   parent_slice |-> parent_partition]]

InitRouter ==
  /\ comp = "router"
  /\ CursorIdle /\ RequestIdle /\ RetryIdle /\ ReadIdle /\ AvailIdle
  /\ KlaviyoPageIdle /\ HistoryIdle /\ EngageIdle /\ MergeIdle
  /\ parent_stream_configs \in 0..MaxParentConfigs
  /\ config = IF parent_stream_configs = 0 THEN 0 ELSE 1
  /\ router_phase = IF parent_stream_configs = 0 THEN "done" ELSE "slices"
  /\ parent_stream_slice = 0 /\ empty_parent_slice = TRUE
  /\ parent_record = NoMessage /\ last_slice = NoSlice /\ yielded = 0
  /\ slices_read = 0 /\ records_read = 0
  /\ skipped_before = FALSE /\ empty_before = FALSE /\ nonrecord_before = FALSE
  /\ remembered = NoProjection /\ rerun = FALSE

RouterUnchanged ==
  UNCHANGED <<comp, cursorVars, requestVars, retryVars, readVars, availVars,
              klaviyoPageVars, historyVars, engageVars, mergeVars,
              parent_stream_configs>>

\* The parent's stream_slices yields its next slice (lines 233-237).
ParentSlice ==
  /\ comp = "router" /\ router_phase = "slices"
  /\ slices_read < MaxParentSlices
  /\ parent_stream_slice' \in 0..1
  /\ empty_parent_slice' = TRUE
  /\ slices_read' = slices_read + 1
  /\ records_read' = 0
  /\ router_phase' = "records"
  /\ yielded' = 0
  /\ RouterUnchanged
  /\ UNCHANGED <<config, parent_record, last_slice,
                 skipped_before, empty_before, nonrecord_before,
                 remembered, rerun>>

\* The parent's read_records yields its next message and the loop body
\* runs on it (lines 239-263).
ParentRecord ==
  /\ comp = "router" /\ router_phase = "records"
  /\ records_read < MaxParentRecords
  /\ \E m \in Messages :
       LET res == FunnelsSubstreamPartitionRouter_stream_slices_body(
                    m, parent_stream_slice)
       IN /\ parent_record' = m
          /\ last_slice' = IF res.yields THEN res.slice ELSE last_slice
          /\ yielded' = IF res.yields THEN yielded + 1 ELSE yielded
          /\ empty_parent_slice' = (empty_parent_slice /\ ~res.yields)
          /\ router_phase' = IF res.goes_on THEN "records" ELSE "done"
          /\ skipped_before' = (skipped_before \/ (IsRecordMessage(m) /\ m.id = 0))
          /\ nonrecord_before' = (nonrecord_before \/ ~IsRecordMessage(m))
          /\ remembered' \in
               IF res.yields /\ remembered = NoProjection /\ ~rerun
               THEN {remembered,
                     [record |-> m, parent_partition |-> parent_stream_slice,
                      slice |-> res.slice]}
               ELSE {remembered}
  /\ records_read' = records_read + 1
  /\ RouterUnchanged
  /\ UNCHANGED <<config, parent_stream_slice, slices_read, empty_before, rerun>>

\* read_records of the parent slice is exhausted (lines 265-266).
ParentSliceEnds ==
  /\ comp = "router" /\ router_phase = "records"
  /\ router_phase' = "slices"
  /\ empty_before' = (empty_before \/ empty_parent_slice)
  /\ RouterUnchanged
  /\ UNCHANGED <<config, parent_stream_slice, empty_parent_slice, parent_record,
                 last_slice, yielded, slices_read, records_read,
                 skipped_before, nonrecord_before, remembered, rerun>>

\* The parent's stream_slices is exhausted: the next config, or the end.
ParentEnds ==
  /\ comp = "router" /\ router_phase = "slices"
  /\ IF config < parent_stream_configs
     THEN config' = config + 1 /\ router_phase' = "slices"
     ELSE config' = config /\ router_phase' = "done"
  /\ slices_read' = 0
  /\ RouterUnchanged
  /\ UNCHANGED <<parent_stream_slice, empty_parent_slice, parent_record,
                 last_slice, yielded, records_read,
                 skipped_before, empty_before, nonrecord_before,
                 remembered, rerun>>

\* stream_slices is called a second time on the same router, over parent
\* data of the same kind; nothing but its locals starts afresh.
RunAgain ==
  /\ comp = "router" /\ router_phase = "done" /\ ~rerun
  /\ parent_stream_configs > 0
  /\ rerun' = TRUE
  /\ config' = 1 /\ router_phase' = "slices"
  /\ parent_stream_slice' = 0 /\ empty_parent_slice' = TRUE
  /\ parent_record' = NoMessage /\ last_slice' = NoSlice /\ yielded' = 0
  /\ slices_read' = 0 /\ records_read' = 0
  /\ skipped_before' = FALSE /\ empty_before' = FALSE
  /\ nonrecord_before' = FALSE
  /\ RouterUnchanged
  /\ UNCHANGED remembered

NextRouter ==
  ParentSlice \/ ParentRecord \/ ParentSliceEnds \/ ParentEnds \/ RunAgain

\* ------------------------- get_updated_state on two records, both orders
\* The get_updated_state of the stream's class.
get_updated_state(mixin, state, record, start) ==
  IF mixin THEN StreamWithArchivedRecords_get_updated_state(state, record, start)
  ELSE KlaviyoStream_get_updated_state(state, record, start)

\* A call after the call with outcome o: none when that one raised (the
\* read is over), else on the state it returned.
Then(mixin, o, record, start) ==
  IF o.raised THEN o ELSE get_updated_state(mixin, o.state, record, start)

MergeRecords == {r \in Records : r.archived # "False"}

InitMerge ==
  /\ comp = "merge"
  /\ RequestIdle /\ RetryIdle /\ ReadIdle /\ AvailIdle
  /\ KlaviyoPageIdle /\ HistoryIdle /\ EngageIdle /\ RouterIdle /\ MergeIdle
  /\ stream_state \in [cur : {NoneStr} \cup CursorStrings, arch : StoredStrings]
  /\ start_ts \in StoredStrings
  /\ archivedMixin \in BOOLEAN
  /\ ~archivedMixin => stream_state.arch = NoneStr
  /\ latest_record = NoRecord
  /\ cursor_err = FALSE
  /\ seenP = -1 /\ seenA = -1 /\ callsP = FALSE /\ callsA = FALSE

\* From the same state, get_updated_state is called on one record once and
\* twice, and on two records in one order and in the other.
MergeBothOrders ==
  /\ comp = "merge" /\ first_record = NoRecord
  /\ \E r1 \in MergeRecords, r2 \in MergeRecords :
       LET start == [raised |-> FALSE, state |-> stream_state]
           a     == Then(archivedMixin, start, r1, start_ts)
           b     == Then(archivedMixin, start, r2, start_ts)
       IN /\ first_record' = r1
          /\ second_record' = r2
          /\ once' = a
          /\ twice' = Then(archivedMixin, a, r1, start_ts)
          /\ one_order' = Then(archivedMixin, a, r2, start_ts)
          /\ other_order' = Then(archivedMixin, b, r1, start_ts)
  /\ UNCHANGED <<comp, cursorVars, requestVars, retryVars, readVars, availVars,
                 klaviyoPageVars, historyVars, engageVars, routerVars>>

Init == InitCursor \/ InitRetry \/ InitRead

Next == GetUpdatedState \/ NextRetry \/ NextRead \/ HandleHttpError

Spec == Init /\ [][Next]_vars

\* The retry loops are sequential code: a pending call returns or raises (the
\* transport enforces timeouts) and a wait ends, so no enabled step of a
\* request is postponed forever.
FairSpec == Spec /\ WF_vars(NextRetry) /\ WF_vars(NextRead)

\* The cursor state manager started from a state that may be malformed.
SpecMalformed == InitCursorMalformed /\ [][GetUpdatedState]_vars

\* Pagination of partitions: the Klaviyo next-link strategy and the
\* Mixpanel page-and-session strategy.
InitPages == InitKlaviyoPages \/ InitEngage

NextPages == NextKlaviyoPages \/ NextEngage

SpecPages == InitPages /\ [][NextPages]_vars

\* Enumeration of the partitions of a substream.
SpecRouter == InitRouter /\ [][NextRouter]_vars

\* The cursor merge as a function of the state and of two records.
SpecMerge == InitMerge /\ [][MergeBothOrders]_vars

\* ------------------------------------------------- claims: cursor state
\* C1: from one get_updated_state call to the next, the stored value of each
\* cursor namespace (primary, and archived) never denotes an earlier instant
\* than before, and a stored value never disappears.
C1_CursorNeverMovesBackward ==
  [][/\ InstantOf(stream_state'.cur) >= InstantOf(stream_state.cur)
     /\ InstantOf(stream_state'.arch) >= InstantOf(stream_state.arch)]_vars

\* C1 witness: both namespaces have been written and the latest record is
\* older than the value its namespace keeps.
C1_Witness ==
  /\ callsP /\ callsA
  /\ latest_record.cursor.fmt \in {"Z", "offset"}
  /\ InstantOf(latest_record.cursor) <
       InstantOf(IF IsArchived(latest_record) THEN stream_state.arch
                 ELSE stream_state.cur)

\* C2: once a call has stored into a namespace, the stored cursor denotes the
\* greatest instant seen: over the records fed to the namespace and the prior
\* stored value, the start bound standing in for an absent stored value.
C2_StoredIsMaxSeen ==
  /\ callsP => InstantOf(stream_state.cur) = seenP
  /\ callsA => InstantOf(stream_state.arch) = seenA

\* C2 witness: a record written with "Z" carried the greatest instant and is
\* now the stored value, above the start bound.
C2_Witness ==
  /\ callsP
  /\ latest_record.cursor.fmt = "Z"
  /\ ~IsArchived(latest_record)
  /\ Truthy(start_ts)
  /\ InstantOf(start_ts) < InstantOf(latest_record.cursor)
  /\ InstantOf(stream_state.cur) = InstantOf(latest_record.cursor)

\* C3: in a stream with archived records, a call on an archived record leaves
\* the primary cursor as it was and a call on any other record leaves the
\* archived cursor as it was.
C3_NamespacesIndependent ==
  [][(comp = "cursor" /\ archivedMixin) =>
       /\ IsArchived(latest_record') => stream_state'.cur = stream_state.cur
       /\ ~IsArchived(latest_record') => stream_state'.arch = stream_state.arch]_vars

\* C3 witness: both kinds of record have been stored and the two markers
\* differ.
C3_Witness ==
  /\ archivedMixin /\ callsP /\ callsA
  /\ InstantOf(stream_state.cur) # InstantOf(stream_state.arch)

\* ------------------------------------------------- claims: retry policy
Terminal == {"Success", "GiveUp", "Fatal"}

\* The request in flight: a new page, pass or partition is another request.
ReqId == <<comp, slice, pass, page>>

\* A step in which a pending request gets its answer.
Answered == rstate = "Pending" /\ rstate' # "Pending"

\* C4: a 429 whose Retry-After is at least max_time ends the request in Fatal
\* at once, with no further attempt of it; a 429 with a smaller Retry-After
\* makes the policy wait exactly that long.
C4_RetryAfterEscalation ==
  [][/\ (comp = "read" /\ Answered /\ resp'.status = 429 /\ resp'.retry_after # -1)
          => IF resp'.retry_after >= max_time
             THEN rstate' = "Fatal" /\ tries' = tries
             ELSE rstate' \in {"Retryable", "GiveUp"} /\ wait' = resp'.retry_after
     /\ (comp = "read" /\ rstate = "Fatal" /\ ReqId' = ReqId)
          => rstate' = "Fatal" /\ tries' = tries]_vars

\* C4 witness: after one retry, a 429 whose Retry-After equals max_time has
\* ended the request in Fatal.
C4_Witness ==
  /\ comp = "read" /\ rstate = "Fatal" /\ tries = 2
  /\ resp.status = 429 /\ resp.retry_after = max_time

\* C5 (as claimed): once a request of the read has ended in Fatal no further
\* request is issued for that stream read, and after a GiveUp no further
\* request is issued for the partition it occurred in.
C5_FatalAbortsStreamRead ==
  [][/\ (comp = "read" /\ fatalSeen) => ~(rstate # "Pending" /\ rstate' = "Pending")
     /\ (comp = "read" /\ rstate = "GiveUp" /\ rstate' = "Pending")
          => slice' # slice]_vars

\* A step in which the wrapped Salesforce call raised.
Raised == comp = "salesforce" /\ rstate = "Pending" /\ rstate' \in {"GiveUp", "Retryable"}

C7_TransientNeverGivenUp ==
  [][(Raised /\ (exc'.cls \in ConnectionLevel
                  \/ exc'.status >= 500 \/ exc'.status = too_many_requests)) =>
       /\ surfaced' # AttributeError
       /\ tries < max_tries => rstate' = "Retryable"
       /\ rstate' = "GiveUp" => surfaced' = exc']_vars

\* C8 (as claimed): the k-th wait slept (k = 0, 1, ...) is factor * 2^k, the
\* request is attempted at most max_tries times, and when max_tries is
\* exhausted by a failure of a transient class that failure is surfaced.
C8_ExpoWaitsAndExhaustion ==
  comp = "salesforce" =>
    /\ \A k \in 1..Len(waits) : waits[k] = factor * Pow2(k - 1)
    /\ tries <= max_tries
    /\ (rstate = "GiveUp" /\ tries = max_tries
          /\ exc.cls \in ConnectionLevel \cup {"AsyncDefaultBackoffException"})
         => surfaced = exc

\* C9: Success, GiveUp and Fatal are terminal (the request is never attempted
\* again), a request goes back to Pending only from Retryable, and every
\* pending request eventually reaches a terminal state.
C9_RequestStateMachine ==
  /\ [][/\ (rstate \in Terminal /\ ReqId' = ReqId)
             => rstate' = rstate /\ tries' = tries
        /\ (rstate # "Pending" /\ rstate' = "Pending" /\ ReqId' = ReqId)
             => rstate = "Retryable" /\ tries' = tries + 1
        /\ rstate = "Pending"
             => rstate' \in {"Pending", "Retryable"} \cup Terminal]_vars
  /\ (rstate = "Pending") ~> (rstate \in Terminal)

\* C9 witness: a request went through the Pending/Retryable cycle until its
\* attempts were exhausted.
C9_Witness ==
  /\ comp = "salesforce" /\ rstate = "GiveUp"
  /\ max_tries > 1 /\ tries = max_tries /\ Len(waits) = max_tries - 1

\* C10: an exception of a class outside the transient classes leaves the
\* wrapped call unchanged at its first occurrence, with no wait; and
\* handle_http_error raises the very error it was given for every status
\* other than 403 and 400.
C10_UnclassifiedReraised ==
  /\ (comp = "salesforce" /\ exc.cls = "Unclassified")
       => rstate = "GiveUp" /\ surfaced = exc /\ wait = 0
  /\ (comp = "salesforce" /\ avail_error # NoError
        /\ avail_error.status \notin {403, 400})
       => avail_result.kind = "raise" /\ avail_result.error = avail_error

\* C10 witness: an unclassified exception surfaced from the wrapper and the
\* availability handler raised a 500 again.
C10_Witness ==
  /\ comp = "salesforce"
  /\ exc.cls = "Unclassified" /\ surfaced = exc
  /\ avail_error.status = 500 /\ avail_result.kind = "raise"

\* ------------------------------------------- claims: Klaviyo pagination
\* A response of the partition has been resolved by next_page_token.
Resolved == comp = "klaviyo_pages" /\ phase \in {"build", "end"} /\ pages >= 1

\* The value the query string gives key k: that of the last pair of k
\* whose value is not blank.
NonBlank(query, k) == {i \in 1..Len(query) : query[i].k = k /\ query[i].v # << >>}

LastOf(S) == CHOOSE i \in S : \A j \in S : j <= i

\* C11: next_page_token returns None exactly when the response has no (or an
\* empty) links.next; otherwise it returns the flat mapping of the query
\* params of that link, unmodified (a key maps to its last non-blank value),
\* and a response without a next link ends the partition's pagination.
C11_NextPageToken ==
  Resolved =>
    /\ next_page_token.none <=> next_page_link.kind \in {"absent", "null", "empty"}
    /\ next_page_token.none => phase = "end"
    /\ ~next_page_token.none =>
         LET query == next_page_link.query
             map   == next_page_token.map
         IN /\ DOMAIN map = {k \in {query[i].k : i \in 1..Len(query)} :
                               NonBlank(query, k) # {}}
            /\ \A k \in DOMAIN map : map[k] = query[LastOf(NonBlank(query, k))].v

\* A link with a duplicated key and a blank param was resolved into a token
\* and the pagination goes on.
C11_Witness ==
  /\ Resolved /\ phase = "build"
  /\ Len(next_page_link.query) > Cardinality(DOMAIN next_page_token.map)
  /\ "page[cursor]" \in DOMAIN next_page_token.map

\* The request of a page has been built from the token of the previous one.
BuiltFromToken ==
  comp = "klaviyo_pages" /\ phase = "sent" /\ pages >= 2

\* C12: when a pagination token is present the request's query params are
\* exactly the token: no stream class in the request_params chain adds,
\* removes or rewrites a param; without a token the base class contributes
\* only the page-size param, if configured.
C12_ParamsAreExactlyToken ==
  /\ BuiltFromToken => params = next_page_token.map
  /\ (comp = "klaviyo_pages" /\ phase = "sent" /\ pages = 1
        /\ klass = "KlaviyoStream") =>
       params = IF page_size # 0 THEN PageSizeParams(page_size) ELSE EmptyDict

\* The first request of a partition of an incremental stream has been built
\* with a cursor filter.
FirstFilter ==
  /\ comp = "klaviyo_pages" /\ phase = "sent" /\ pages = 1
  /\ klass # "KlaviyoStream"
  /\ "filter" \in DOMAIN params /\ params["filter"][1].op = "greater-than"

StoredCursor == IF archived_pass THEN stream_state.arch ELSE stream_state.cur

IMin(a, b) == IF a <= b THEN a ELSE b

\* C17: the lower bound of the cursor filter, before it is clamped, is the
\* later of the stored cursor (if any) and the start bound, for every
\* combination of the two: the filter carries that instant unless now minus
\* the margin is earlier.
C17_BoundIsLaterOfStoredAndStart ==
  FirstFilter =>
    InstantOf(params["filter"][1].ts)
      = IMin(IMax(InstantOf(StoredCursor), InstantOf(start_ts)), now - Margin)

\* The request of any page carries a cursor filter.
CursorFilter ==
  /\ comp = "klaviyo_pages" /\ phase = "sent"
  /\ "filter" \in DOMAIN params /\ params["filter"][1].op = "greater-than"

\* C18 as stated: every cursor filter bound is clamped to strictly earlier
\* than now minus the margin of 3 seconds.
C18_BoundStrictlyBeforeMargin ==
  CursorFilter => InstantOf(params["filter"][1].ts) < now - Margin

\* C18, amended: every cursor filter bound the stream builds is no later
\* than now minus the margin of 3 seconds.
C18_BoundNotAfterMargin ==
  CursorFilter => InstantOf(params["filter"][1].ts) <= now - Margin

\* The clamp acted: the stored cursor or start bound was later than now
\* minus the margin, and the filter carries now minus the margin.
C18_Witness ==
  /\ FirstFilter
  /\ IMax(InstantOf(StoredCursor), InstantOf(start_ts)) > now - Margin
  /\ InstantOf(params["filter"][1].ts) = now - Margin

\* ------------------------------------------- claims: Engage pagination
\* The total the strategy goes by on a response: the response's own when
\* it has one, else the retained one; 0 when there is neither.
RetainedTotal(r, total) ==
  IF r.total > 0 THEN r.total ELSE IF total > 0 THEN total ELSE 0

\* C13: next_page_token keeps the total of an earlier page for later pages,
\* returns {session_id, page: page index + 1} exactly when the retained total
\* exceeds page_size * (page index + 1), and in every other case (a missing
\* page index included) returns None and clears the retained total.
C13_EngageNextPageToken ==
  [][(comp = "engage" /\ phase = "sent" /\ phase' # "failed") =>
       LET r        == decoded_response'
           retained == RetainedTotal(r, self_total)
           goesOn   == r.page # -1 /\ retained > page_size * (r.page + 1)
       IN /\ phase' # "raised"
          /\ goesOn => /\ next_page_token' = EngageToken(r.page)
                       /\ self_total' = retained
          /\ ~goesOn => /\ next_page_token' = NoToken
                        /\ self_total' = None]_vars

Ceil(n, d) == (n + d - 1) \div d

\* C14 as stated: for any total >= 0 and page_size >= 1, a partition whose
\* provider serves the pages asked for is paginated within
\* ceil(total / page_size) page requests.
C14_PagesWithinCeil ==
  (comp = "engage" /\ faithful) => pages <= Ceil(part_total, page_size)

\* C14, amended: for any total >= 1 and page_size >= 1, such a partition is
\* paginated within ceil(total / page_size) page requests, and a token is
\* returned only while fewer have been made.
C14_PagesWithinCeilOfPositiveTotal ==
  (comp = "engage" /\ faithful /\ part_total >= 1) =>
    /\ pages <= Ceil(part_total, page_size)
    /\ phase # "raised"
    /\ (phase = "build" /\ pages >= 1) => pages < Ceil(part_total, page_size)

\* A partition of more than one page ended with None on its last page.
C14_Witness ==
  /\ comp = "engage" /\ faithful /\ phase = "end"
  /\ pages >= 2 /\ pages = Ceil(part_total, page_size)

\* C15: the resolver ends the pagination when the provider repeats itself:
\* under both strategies no token is returned twice for one partition.
C15_NoTokenReturnedTwice ==
  (comp \in {"klaviyo_pages", "engage"}) => ~repeated

\* C16: whenever the pagination of a partition starts, the retained total is
\* unset, whatever way the previous partition ended.
C16_TotalUnsetAtPartitionStart ==
  (comp = "engage" /\ phase = "build" /\ pages = 0) => self_total \in {Unset, None}

\* ------------------------------------------- claims: partition router
\* The step reads one message of the parent.
ReadsParentRecord == comp = "router" /\ records_read' = records_read + 1

\* C19: a parent record without the configured field path is skipped without
\* error and without a partition, and a parent slice without usable records
\* yields nothing; neither ends the enumeration: the loop over the slice goes
\* on, and a record that resolves is projected whatever was skipped before.
C19_SkipsDoNotEndEnumeration ==
  [][/\ ReadsParentRecord =>
          LET m == parent_record'
          IN /\ (IsRecordMessage(m) /\ m.id = 0) =>
                  /\ yielded' = yielded /\ last_slice' = last_slice
                  /\ router_phase' = "records"
             /\ (IsRecordMessage(m) /\ m.id # 0) =>
                  /\ yielded' = yielded + 1
                  /\ router_phase' = "records"
     /\ (comp = "router" /\ router_phase = "records" /\ router_phase' # "records") =>
          /\ router_phase' = "slices"
          /\ yielded' = yielded /\ last_slice' = last_slice]_vars

\* A partition was yielded after a record was skipped and after a parent
\* slice had ended empty.
C19_Witness ==
  /\ comp = "router" /\ skipped_before /\ empty_before
  /\ IsRecordMessage(parent_record) /\ parent_record.id # 0
  /\ ~empty_parent_slice
  /\ last_slice.partition_value = parent_record.id

\* C20: a message of the parent that is no record is filtered out before the
\* projection: it yields no partition; every record message whose field path
\* resolves is projected to the partition of its data.
C20_NonRecordMessagesFiltered ==
  [][ReadsParentRecord =>
       LET m == parent_record'
       IN /\ ~IsRecordMessage(m) =>
               /\ yielded' = yielded /\ last_slice' = last_slice
               /\ empty_parent_slice' = empty_parent_slice
          /\ (IsRecordMessage(m) /\ m.id # 0) =>
               /\ yielded' = yielded + 1
               /\ last_slice' = [partition_value |-> m.id,
                                 funnel_name |-> m.name,
                                 parent_slice |-> parent_stream_slice]]_vars

\* An AirbyteMessage of type RECORD was projected after a non-record message
\* had been read.
C20_Witness ==
  /\ comp = "router" /\ nonrecord_before
  /\ parent_record.wrapper = "AirbyteMessage" /\ parent_record.type = "RECORD"
  /\ parent_record.id # 0
  /\ yielded >= 1
  /\ last_slice.partition_value = parent_record.id

\* C21: the router emits exactly one partition for every parent record whose
\* field path resolves, at the step that reads it (so in parent-slice and
\* then parent-record order), made of the projected value, the funnel_name
\* of the same record and the partition of the parent slice it was read
\* from; no other step emits a partition.
C21_OnePartitionPerResolvingRecord ==
  [][comp = "router" =>
       LET m        == parent_record'
           resolves == ReadsParentRecord /\ IsRecordMessage(m) /\ m.id # 0
       IN /\ resolves =>
               /\ yielded' = yielded + 1
               /\ last_slice'.partition_value = m.id
               /\ last_slice'.funnel_name = m.name
               /\ last_slice'.parent_slice = parent_stream_slice
          /\ ~resolves =>
               /\ yielded' <= yielded
               /\ last_slice' \in {last_slice, NoSlice}]_vars

\* The second partition of the second parent slice carries that slice's
\* partition and its record's name.
C21_Witness ==
  /\ comp = "router" /\ slices_read = 2 /\ yielded = 2
  /\ parent_stream_slice = 1 /\ last_slice.parent_slice = 1
  /\ parent_record.name = 1 /\ last_slice.funnel_name = 1
  /\ last_slice.partition_value = parent_record.id

C23_ArchivedPassAfterPrimary ==
  [][comp = "read" =>
       /\ (pass = "primary" /\ pass' = "archived") =>
            /\ hasArchived /\ slice' = slice /\ page' = 1
            /\ \/ rstate = "Success" /\ ~more
               \/ rstate = "Fatal"
       /\ (pass = "archived" /\ pass' = "primary") => slice' = slice + 1
       /\ pass' = pass => slice' >= slice
       /\ (pass' = pass /\ pass = "archived") => slice' = slice]_vars

\* The archived pass of the second partition is under way, past its first
\* page.
C23_Witness ==
  /\ comp = "read" /\ readEnd = "running"
  /\ pass = "archived" /\ slice = 2 /\ page = 2

\* ------------------------------------------- claims: malformed cursors
\* The value a call compares the record's cursor with.
ComparedWith(record) ==
  Effective(IF archivedMixin /\ IsArchived(record)
            THEN stream_state.arch ELSE stream_state.cur, start_ts)

\* C24: when the cursor value of the record, or the stored value (or start
\* bound) it is compared with, cannot be parsed, get_updated_state fails
\* with an error, stores nothing in its place and leaves the stored state as
\* it was; a call on well-formed values does not fail.
C24_MalformedCursorFails ==
  [][comp = "cursor" =>
       LET record    == latest_record'
           malformed == \/ ParseRaises(record.cursor)
                        \/ ParseRaises(ComparedWith(record))
       IN /\ malformed => cursor_err' /\ stream_state' = stream_state
          /\ ~malformed => ~cursor_err']_vars

\* A call on a well-formed record failed on the malformed stored cursor,
\* which is still stored.
C24_Witness ==
  /\ comp = "cursor" /\ cursor_err
  /\ ~ParseRaises(latest_record.cursor) /\ Truthy(latest_record.cursor)
  /\ ~IsArchived(latest_record)
  /\ stream_state.cur = BadStr

\* ------------------------------------------- claims: swallowed fatal error
\* C25: a KlaviyoBackoffError never leaves KlaviyoStream.read_records: the
\* pass ends as if it were exhausted.  After the primary pass of a stream
\* with archived records the archived pass of the same partition starts;
\* otherwise the caller goes on to the next partition, or the read is done;
\* the pages read before stay read.
C25_BackoffErrorSwallowed ==
  [][(comp = "read" /\ rstate = "Fatal") =>
       IF pass = "primary" /\ hasArchived
       THEN /\ pass' = "archived" /\ slice' = slice /\ page' = 1
            /\ rstate' = "Pending" /\ readEnd' = "running"
       ELSE IF slice < nslices
       THEN /\ pass' = "primary" /\ slice' = slice + 1 /\ page' = 1
            /\ rstate' = "Pending" /\ readEnd' = "running"
       ELSE /\ readEnd' = "done" /\ page' = page /\ slice' = slice]_vars

\* The archived pass of the first partition started although its primary
\* pass ended in a KlaviyoBackoffError.
C25_Witness ==
  /\ comp = "read" /\ fatalSeen /\ readEnd = "running"
  /\ slice = 1 /\ pass = "archived" /\ page = 1
  /\ rstate = "Pending" /\ tries = 1

\* ------------------------------------------- claims: Campaigns filter
Occurrences(x, seq) == Cardinality({i \in 1..Len(seq) : seq[i] = x})

\* C26: across the pages of a Campaigns partition whose tokens echo the
\* filter of the request before, the filter of every request holds the
\* partition's channel filter exactly once and the archived filter at most
\* once.
C26_FilterDoesNotGrow ==
  (/\ comp = "klaviyo_pages" /\ klass = "Campaigns" /\ phase = "sent"
   /\ pages >= 2 => "filter" \in DOMAIN next_page_token.map) =>
    /\ "filter" \in DOMAIN params
    /\ Occurrences(ChannelFilter(stream_slice)[1], params["filter"]) = 1
    /\ Occurrences(ArchivedFilter, params["filter"]) <= 1

\* ------------------------------------------- claims: availability
\* handle_http_error has been called on an error.
Handled == comp = "salesforce" /\ avail_error # NoError

\* C27: handle_http_error reports the stream available (True, None) exactly
\* when the status is 403 or 400 and the error code REQUEST_LIMIT_EXCEEDED;
\* for 403 or 400 with any other code (INVALID_TYPE_FOR_OPERATION included)
\* it reports unavailable with the provider's message; for any other status
\* it returns no result.
C27_AvailableOnlyOnRequestLimit ==
  Handled =>
    LET e       == avail_error
        handled == e.status \in {403, 400}
        limit   == e.code = "REQUEST_LIMIT_EXCEEDED"
    IN /\ (avail_result.kind = "return" /\ avail_result.available)
            <=> (handled /\ limit)
       /\ (handled /\ limit) => avail_result.reason = ""
       /\ (handled /\ ~limit) =>
            /\ avail_result.kind = "return" /\ ~avail_result.available
            /\ avail_result.reason = e.message
       /\ ~handled => avail_result.kind # "return"

\* A 400 with INVALID_TYPE_FOR_OPERATION was reported unavailable with the
\* provider's message.
C27_Witness ==
  /\ Handled /\ avail_error.status = 400
  /\ avail_error.code = "INVALID_TYPE_FOR_OPERATION"
  /\ avail_result.kind = "return" /\ ~avail_result.available
  /\ avail_result.reason = avail_error.message

\* ------------------------------------------- claims: cursor merge algebra
\* Both records have been applied, and no call failed.
Merged ==
  /\ comp = "merge" /\ first_record # NoRecord
  /\ ~twice.raised /\ ~one_order.raised /\ ~other_order.raised

\* C28 as stated: applying a record twice gives the state of applying it
\* once, and two records leave the same state in either order.
C28_IdempotentAndOrderIndependent ==
  Merged => /\ twice.state = once.state
            /\ one_order.state = other_order.state

\* C28, amended: applying a record twice gives the state of applying it
\* once, and two records leave each namespace at the same instant in either
\* order (the zone notation is that of the record applied last among the
\* latest ones).
C28_IdempotentAndSameInstants ==
  Merged => /\ twice.state = once.state
            /\ InstantOf(one_order.state.cur) = InstantOf(other_order.state.cur)
            /\ InstantOf(one_order.state.arch) = InstantOf(other_order.state.arch)

\* Two records of the same instant written at different UTC offsets left
\* different strings for the same instant, depending on the order.
C28_Witness ==
  /\ Merged
  /\ InstantOf(first_record.cursor) = InstantOf(second_record.cursor)
  /\ first_record.cursor.off # second_record.cursor.off
  /\ one_order.state # other_order.state
  /\ InstantOf(one_order.state.cur) = InstantOf(other_order.state.cur)
  /\ InstantOf(one_order.state.cur) = InstantOf(first_record.cursor)
====
